---- MODULE Spec2Model ----
(***************************************************************************)
(* Heatmap / location-refinement target generation of                      *)
(* deeplabcut/pose_estimation_pytorch/models/target_generators/            *)
(* heatmap_targets.py: HeatmapGenerator.forward with the two update rules  *)
(* HeatmapGaussianGenerator.update and HeatmapPlateauGenerator.update.     *)
(*                                                                         *)
(* Arrays are functions over 0-based index ranges, nested one level per    *)
(* axis, so that a[b][h][w][c] reads like the numpy expression a[b,h,w,c]. *)
(* None is the empty function <<>>.                                        *)
(*                                                                         *)
(* Numbers.  Keypoint coordinates are integers and locref_std is the       *)
(* reciprocal of an integer, so every distance, offset and scaled offset   *)
(* is an integer that float32/float64 hold exactly.  The Gaussian response *)
(* exp(-dist / (2 * std^2)) is kept in the log domain (see GaussResponse). *)
(***************************************************************************)
EXTENDS Integers, Sequences, FiniteSets, TLC

\* ------------------------------------------------------------------ bounds

\* A label array has at most this many subjects, and at most this many
\* keypoints in all (batch_size * subjects * keypoint-types).
MaxSubjects == 2

\* Keypoint coordinates x and y; 0 is the non-positive one.
Coords == 0..2

\* pos_dist_thresh
Thresholds == 1..2

\* 1 / locref_std: locref_std is 1 or 0.5, so locref_scale is 1.0 or 2.0.
LocrefStdInvs == 1..2

\* (input_h, input_w, height, width): image size and feature-map size.
\* The first has stride 2 on both axes; the second has stride_y = 1.5.
Shapes == { <<4, 4, 2, 2>>, <<3, 4, 2, 2>> }

Kernels == {"Gaussian", "Plateau"}
Modes == {"KEYPOINT", "INDIVIDUAL"}

VARIABLES
    self,         \* the generator: kernel class and the fields set by __init__
    inputs,       \* inputs.shape of forward: batch_size, input_h, input_w
    outputs,      \* outputs["heatmap"].shape[2:]: height, width
    labels,       \* labels[label_keypoint_key]: ndim (3 or 4) and the array
    coords,       \* local of forward: the reshaped / transposed label array
    grid,         \* local of forward
    heatmap,      \* local of forward, layout (b, h, w, c)
    locref_map,   \* local of forward, layout (b, h, w, 2c), or None
    locref_mask,  \* local of forward, layout (b, h, w, 2c), or None
    b,            \* loop index of line 149
    heatmap_idx,  \* loop index of line 150
    kp_idx,       \* position of line 151's loop inside group_keypoints
    updates,      \* number of calls of self.update made so far
    visited,      \* SpecAnyOrder only: keypoints gone through, per group
    target,       \* the returned dictionary, or None before the return
    pc            \* "start", "loop", "assemble", "done" or "raised"

vars == << self, inputs, outputs, labels, coords, grid, heatmap, locref_map,
           locref_mask, b, heatmap_idx, kp_idx, updates, visited, target,
           pc >>

None == << >>

\* ------------------------------------------------------------- arithmetic

Max(x, y) == IF x >= y THEN x ELSE y

\* Assigning a non-negative float num/den into an int64 array element.
FloatToInt(num, den) == num \div den

\* ln(0.0): below every exponent a response can have.
LogZero == -1000000

\* ln(1.0)
LogOne == 0

\* exp(-dist / (2 * std^2)) with std = 2 * dist_thresh / 3, in the log domain:
\* -dist / (2 * std^2) = -9 * dist / (8 * dist_thresh^2).  dist_thresh is fixed
\* for a generator, so the value is recorded by the numerator -9 * dist; exp
\* is increasing, so np.maximum of two responses is Max of their numerators,
\* 1.0 is LogOne and 0.0 is LogZero.
GaussResponse(dist) == -9 * dist

\* Number of elements along the first axis of an array.
Size(a) == Cardinality(DOMAIN a)

\* ------------------------------------------------------------ constructor

\* HeatmapGenerator.__init__.  locref_std is 1 / locref_std_inv.
HeatmapGenerator(kernel, num_heatmaps, pos_dist_thresh, heatmap_mode, generate_locref, locref_std_inv) ==
    [ kernel          |-> kernel,
      num_heatmaps    |-> num_heatmaps,
      dist_thresh     |-> pos_dist_thresh,
      dist_thresh_sq  |-> pos_dist_thresh * pos_dist_thresh,
      heatmap_mode    |-> heatmap_mode,
      generate_locref |-> generate_locref,
      locref_scale    |-> locref_std_inv ]

\* ----------------------------------------------------------------- forward

\* coords.reshape((batch_size, 1, *coords.shape[1:])) when len(coords.shape) == 3
Reshape(lab) ==
    IF lab.ndim = 3
    THEN [bb \in DOMAIN lab.array |-> [s \in 0..0 |-> lab.array[bb]]]
    ELSE lab.array

\* coords.transpose((0, 2, 1, 3))
TransposeCoords(c) ==
    [bb \in DOMAIN c |->
        [k \in DOMAIN c[bb][0] |->
            [s \in DOMAIN c[bb] |-> c[bb][s][k]]]]

\* Mutant: the subject and keypoint-type axes are never swapped.
NormalizeCoords_NoTranspose(lab, mode) == Reshape(lab)

\* Lines 128-134: the array forward iterates, coords[b][heatmap_idx][kp_idx].
NormalizeCoords(lab, mode) ==
    IF mode = "KEYPOINT" THEN TransposeCoords(Reshape(lab)) ELSE Reshape(lab)

\* np.zeros((n0, height, width, channels))
Zeros(n0, height, width, channels, zero) ==
    [bb \in 0..(n0 - 1) |->
        [h \in 0..(height - 1) |->
            [w \in 0..(width - 1) |->
                [c \in 0..(channels - 1) |-> zero]]]]

\* i * stride + stride / 2 with stride = in_size / size, stored into the int64
\* array np.mgrid gives: (2 * i + 1) * in_size / (2 * size), truncated.
GridCentre(i, in_size, size) == FloatToInt((2 * i + 1) * in_size, 2 * size)

\* Lines 145-147.  grid[i][j][0] is the row, grid[i][j][1] the column.
BuildGrid(height, width, input_h, input_w) ==
    [i \in 0..(height - 1) |->
        [j \in 0..(width - 1) |->
            [c \in 0..1 |-> IF c = 0 THEN GridCentre(i, input_h, height)
                                     ELSE GridCentre(j, input_w, width)]]]

\* Mutant: the keypoint is used as stored.
NotReversed(keypoint) == keypoint

\* keypoint.copy()[::-1]
Reversed(keypoint) == [c \in 0..1 |-> keypoint[1 - c]]

\* Mutant: only negative coordinates are passed over.
AnyNegative(keypoint) == \E c \in 0..1 : keypoint[c] < 0

\* np.any(keypoint <= 0.0)
AnyNonPositive(keypoint) == \E c \in 0..1 : keypoint[c] <= 0

\* heatmap[b, :, :, heatmap_idx]: the view update receives.
HeatmapView(hm, bb, k) ==
    [h \in DOMAIN hm[bb] |-> [w \in DOMAIN hm[bb][h] |-> hm[bb][h][w][k]]]

\* Mutant: the two components of a channel start at the channel's index.
StartIdx_NotDoubled(idx) == idx

\* start_idx of get_locref; end_idx is start_idx + 2
StartIdx(idx) == 2 * idx

\* get_locref: locref_map_or_mask[batch_idx, :, :, start_idx:end_idx]
get_locref(generate_locref, locref_map_or_mask, batch_idx, idx) ==
    IF ~generate_locref THEN None
    ELSE [h \in DOMAIN locref_map_or_mask[batch_idx] |->
            [w \in DOMAIN locref_map_or_mask[batch_idx][h] |->
                [c \in 0..1 |->
                    locref_map_or_mask[batch_idx][h][w][StartIdx(idx) + c]]]]

\* The array after update wrote through the view HeatmapView(hm, bb, k).
WithHeatmapView(hm, bb, k, view) ==
    [hm EXCEPT ![bb] =
        [h \in DOMAIN hm[bb] |->
            [w \in DOMAIN hm[bb][h] |->
                [hm[bb][h][w] EXCEPT ![k] = view[h][w]]]]]

\* The array after update wrote through the view get_locref(.., bb, k).
WithLocrefView(arr, bb, k, view) ==
    IF arr = None THEN None
    ELSE [arr EXCEPT ![bb] =
            [h \in DOMAIN arr[bb] |->
                [w \in DOMAIN arr[bb][h] |->
                    [c \in DOMAIN arr[bb][h][w] |->
                        IF c = StartIdx(k) THEN view[h][w][0]
                        ELSE IF c = StartIdx(k) + 1 THEN view[h][w][1]
                        ELSE arr[bb][h][w][c]]]]]

\* ------------------------------------------------------------------ update

\* sum of the squared differences over the last axis of grid - keypoint
\* (np.linalg.norm(.., axis=2) ** 2 and np.sum((..) ** 2, axis=2) agree on
\* integers up to rounding that no comparison below can see)
Dist(g, keypoint) ==
    (g[0] - keypoint[0]) * (g[0] - keypoint[0])
        + (g[1] - keypoint[1]) * (g[1] - keypoint[1])

\* bool(locref_mask) of line 250, for None or a view of shape (h, w, 2):
\* None is falsy, an array without elements is falsy, and numpy raises
\* ValueError for an array of more than one element.
TruthValue(arr) ==
    IF arr = None THEN "False"
    ELSE LET n == Size(arr) * (IF Size(arr) = 0 THEN 0 ELSE Size(arr[0])) * 2
         IN  IF n = 0 THEN "False" ELSE "ValueError"

\* (keypoint[1] - grid[:, :, 1]) * locref_scale, (keypoint[0] - grid[:, :, 0]) * locref_scale
Offsets(g, keypoint, locref_scale) ==
    [c \in 0..1 |-> IF c = 0 THEN (keypoint[1] - g[1]) * locref_scale
                             ELSE (keypoint[0] - g[0]) * locref_scale]

\* Mutant: the Gaussian response overwrites the heatmap instead of being
\* merged into it.
GaussianUpdate_Overwrite(gen, hm, g, keypoint, lmap, lmask) ==
    [ heatmap |-> [h \in DOMAIN hm |-> [w \in DOMAIN hm[h] |->
                      GaussResponse(Dist(g[h][w], keypoint))]],
      locref_map |-> IF lmap # None
                     THEN [h \in DOMAIN lmap |-> [w \in DOMAIN lmap[h] |->
                              Offsets(g[h][w], keypoint, gen.locref_scale)]]
                     ELSE lmap,
      locref_mask |-> lmask,
      raised |-> (TruthValue(lmask) = "ValueError") ]

\* HeatmapGaussianGenerator.update on the views hm, lmap, lmask.  The result
\* holds the views as the call leaves them and whether it raised.
GaussianUpdate(gen, hm, g, keypoint, lmap, lmask) ==
    LET dist(h, w) == Dist(g[h][w], keypoint)
        hm1 == [h \in DOMAIN hm |-> [w \in DOMAIN hm[h] |->
                    Max(hm[h][w], GaussResponse(dist(h, w)))]]
        lmap1 == IF lmap # None
                 THEN [h \in DOMAIN lmap |-> [w \in DOMAIN lmap[h] |->
                          Offsets(g[h][w], keypoint, gen.locref_scale)]]
                 ELSE lmap
        truth == TruthValue(lmask)
        lmask1 == IF truth \notin {"False", "ValueError"}
                  THEN [h \in DOMAIN lmask |-> [w \in DOMAIN lmask[h] |->
                           IF dist(h, w) <= gen.dist_thresh_sq
                           THEN [c \in 0..1 |-> 1] ELSE lmask[h][w]]]
                  ELSE lmask
    IN  [ heatmap |-> hm1, locref_map |-> lmap1, locref_mask |-> lmask1,
          raised |-> (truth = "ValueError") ]

\* Mutant: the plateau leaves out the cells at distance exactly dist_thresh.
PlateauUpdate_Strict(gen, hm, g, keypoint, lmap, lmask) ==
    LET mask(h, w) == Dist(g[h][w], keypoint) < gen.dist_thresh_sq
    IN  [ heatmap |-> [h \in DOMAIN hm |-> [w \in DOMAIN hm[h] |->
                          IF mask(h, w) THEN LogOne ELSE hm[h][w]]],
          locref_map |-> IF lmap # None
                         THEN [h \in DOMAIN lmap |-> [w \in DOMAIN lmap[h] |->
                                  IF mask(h, w)
                                  THEN Offsets(g[h][w], keypoint,
                                               gen.locref_scale)
                                  ELSE lmap[h][w]]]
                         ELSE lmap,
          locref_mask |-> IF lmask # None
                          THEN [h \in DOMAIN lmask |-> [w \in DOMAIN lmask[h] |->
                                   IF mask(h, w) THEN [c \in 0..1 |-> 1]
                                   ELSE lmask[h][w]]]
                          ELSE lmask,
          raised |-> FALSE ]

\* Mutant: the plateau writes the offsets at every cell, as the Gaussian
\* rule does.
PlateauUpdate_WholeGrid(gen, hm, g, keypoint, lmap, lmask) ==
    LET mask(h, w) == Dist(g[h][w], keypoint) <= gen.dist_thresh_sq
    IN  [ heatmap |-> [h \in DOMAIN hm |-> [w \in DOMAIN hm[h] |->
                          IF mask(h, w) THEN LogOne ELSE hm[h][w]]],
          locref_map |-> IF lmap # None
                         THEN [h \in DOMAIN lmap |-> [w \in DOMAIN lmap[h] |->
                                  Offsets(g[h][w], keypoint, gen.locref_scale)]]
                         ELSE lmap,
          locref_mask |-> IF lmask # None
                          THEN [h \in DOMAIN lmask |-> [w \in DOMAIN lmask[h] |->
                                   IF mask(h, w) THEN [c \in 0..1 |-> 1]
                                   ELSE lmask[h][w]]]
                          ELSE lmask,
          raised |-> FALSE ]

\* HeatmapPlateauGenerator.update on the views hm, lmap, lmask.
PlateauUpdate(gen, hm, g, keypoint, lmap, lmask) ==
    LET mask(h, w) == Dist(g[h][w], keypoint) <= gen.dist_thresh_sq
        hm1 == [h \in DOMAIN hm |-> [w \in DOMAIN hm[h] |->
                    IF mask(h, w) THEN LogOne ELSE hm[h][w]]]
        lmap1 == IF lmap # None
                 THEN [h \in DOMAIN lmap |-> [w \in DOMAIN lmap[h] |->
                          IF mask(h, w)
                          THEN Offsets(g[h][w], keypoint, gen.locref_scale)
                          ELSE lmap[h][w]]]
                 ELSE lmap
        lmask1 == IF lmask # None
                  THEN [h \in DOMAIN lmask |-> [w \in DOMAIN lmask[h] |->
                           IF mask(h, w) THEN [c \in 0..1 |-> 1]
                           ELSE lmask[h][w]]]
                  ELSE lmask
    IN  [ heatmap |-> hm1, locref_map |-> lmap1, locref_mask |-> lmask1,
          raised |-> FALSE ]

\* Mutant: arr.transpose((0, 3, 2, 1))
Transpose0321(arr) ==
    [bb \in DOMAIN arr |->
        [c \in DOMAIN arr[bb][0][0] |->
            [w \in DOMAIN arr[bb][0] |->
                [h \in DOMAIN arr[bb] |-> arr[bb][h][w][c]]]]]

\* arr.transpose((0, 3, 1, 2))
Transpose0312(arr) ==
    [bb \in DOMAIN arr |->
        [c \in DOMAIN arr[bb][0][0] |->
            [h \in DOMAIN arr[bb] |->
                [w \in DOMAIN arr[bb][h] |-> arr[bb][h][w][c]]]]]

\* Lines 164-179: the dictionary forward returns.
Bundle(gen, hm, lmap, lmask) ==
    IF gen.generate_locref
    THEN [ heatmap |-> [ target |-> Transpose0312(hm) ],
           locref  |-> [ target  |-> Transpose0312(lmap),
                         weights |-> Transpose0312(lmask) ] ]
    ELSE [ heatmap |-> [ target |-> Transpose0312(hm) ] ]

\* ------------------------------------------------------------------ inputs

Point == [0..1 -> Coords]

\* (batch_size, subjects, keypoint-types) of a label array
LabelDims ==
    { d \in (1..2) \X (1..MaxSubjects) \X (1..2) :
        d[1] * d[2] * d[3] <= MaxSubjects }

\* The label arrays of dimensions d: 4-dimensional, and, for one subject,
\* also 3-dimensional.
LabelArrays(d) ==
    { [ndim |-> 4, array |-> a] :
        a \in [0..(d[1] - 1) -> [0..(d[2] - 1) -> [0..(d[3] - 1) -> Point]]] }
    \cup
    (IF d[2] = 1
     THEN { [ndim |-> 3, array |-> a] :
                a \in [0..(d[1] - 1) -> [0..(d[3] - 1) -> Point]] }
     ELSE {})

\* The state when forward is entered: a constructed generator and the
\* arguments of the call.  num_heatmaps is the number of groups the label
\* array has in the generator's mode.
Init ==
    /\ \E kernel \in Kernels, mode \in Modes, locref \in BOOLEAN,
          thresh \in Thresholds, shape \in Shapes, d \in LabelDims :
         /\ \E scale \in (IF locref THEN LocrefStdInvs ELSE {1}) :
              self = HeatmapGenerator(kernel,
                                      IF mode = "KEYPOINT" THEN d[3] ELSE d[2],
                                      thresh, mode, locref, scale)
         /\ inputs = [batch_size |-> d[1], input_h |-> shape[1],
                      input_w |-> shape[2]]
         /\ outputs = [height |-> shape[3], width |-> shape[4]]
         /\ labels \in LabelArrays(d)
    /\ coords = None
    /\ grid = None
    /\ heatmap = None
    /\ locref_map = None
    /\ locref_mask = None
    /\ b = 0
    /\ heatmap_idx = 0
    /\ kp_idx = 0
    /\ updates = 0
    /\ visited = None
    /\ target = None
    /\ pc = "start"

\* Lines 125-147: shapes, coords, the zeroed buffers and the grid.
Prepare ==
    /\ pc = "start"
    /\ coords' = NormalizeCoords(labels, self.heatmap_mode)
    /\ heatmap' = Zeros(inputs.batch_size, outputs.height, outputs.width,
                        self.num_heatmaps, LogZero)
    /\ locref_map' = IF self.generate_locref
                     THEN Zeros(inputs.batch_size, outputs.height,
                                outputs.width, self.num_heatmaps * 2, 0)
                     ELSE None
    /\ locref_mask' = IF self.generate_locref
                      THEN Zeros(inputs.batch_size, outputs.height,
                                 outputs.width, self.num_heatmaps * 2, 0)
                      ELSE None
    /\ grid' = BuildGrid(outputs.height, outputs.width,
                         inputs.input_h, inputs.input_w)
    /\ b' = 0 /\ heatmap_idx' = 0 /\ kp_idx' = 0
    /\ pc' = "loop"
    /\ UNCHANGED << self, inputs, outputs, labels, updates, target >>

Setup == Prepare /\ UNCHANGED visited

\* keypoint of line 152 at position s of group k of batch element bb
KeypointAt(bb, k, s) == Reversed(coords[bb][k][s])

\* The keypoint the three loops of lines 149-151 are at.
Keypoint == KeypointAt(b, heatmap_idx, kp_idx)

\* The loops of lines 149-151 move to their next keypoint, or end.
Advance ==
    IF kp_idx + 1 < Size(coords[b][heatmap_idx])
    THEN /\ kp_idx' = kp_idx + 1
         /\ UNCHANGED << b, heatmap_idx >>
         /\ pc' = "loop"
    ELSE IF heatmap_idx + 1 < Size(coords[b])
    THEN /\ kp_idx' = 0
         /\ heatmap_idx' = heatmap_idx + 1
         /\ UNCHANGED b
         /\ pc' = "loop"
    ELSE /\ kp_idx' = 0
         /\ heatmap_idx' = 0
         /\ b' = b + 1
         /\ pc' = IF b + 1 < inputs.batch_size THEN "loop" ELSE "assemble"

\* Lines 152-154: a keypoint with a non-positive coordinate is passed over.
Skip ==
    /\ pc = "loop"
    /\ AnyNonPositive(Keypoint)
    /\ Advance
    /\ UNCHANGED << self, inputs, outputs, labels, coords, grid, heatmap,
                    locref_map, locref_mask, updates, visited, target >>

\* Line 157: heatmap[b, :, :, heatmap_idx] raises IndexError past the last
\* channel.
ViewsExist(k) == k < self.num_heatmaps

\* forward ends with the exception.
Raise == pc' = "raised"

\* Lines 156-162 of a HeatmapGaussianGenerator: the call of update.
GaussianCall(bb, k, s) ==
    GaussianUpdate(self, HeatmapView(heatmap, bb, k), grid,
                   KeypointAt(bb, k, s),
                   get_locref(self.generate_locref, locref_map, bb, k),
                   get_locref(self.generate_locref, locref_mask, bb, k))

\* Lines 156-162 of a HeatmapPlateauGenerator: the call of update.
PlateauCall(bb, k, s) ==
    PlateauUpdate(self, HeatmapView(heatmap, bb, k), grid,
                  KeypointAt(bb, k, s),
                  get_locref(self.generate_locref, locref_map, bb, k),
                  get_locref(self.generate_locref, locref_mask, bb, k))

\* The call of update for group k of batch element bb returned r: the
\* buffers hold what it wrote through the views.
Written(bb, k, r) ==
    /\ updates' = updates + 1
    /\ heatmap' = WithHeatmapView(heatmap, bb, k, r.heatmap)
    /\ locref_map' = WithLocrefView(locref_map, bb, k, r.locref_map)
    /\ locref_mask' = WithLocrefView(locref_mask, bb, k, r.locref_mask)

NothingWritten == UNCHANGED << heatmap, locref_map, locref_mask, updates >>

\* Lines 156-162 of a HeatmapGaussianGenerator, for a valid keypoint.
RasterizeGaussian ==
    /\ pc = "loop"
    /\ self.kernel = "Gaussian"
    /\ ~AnyNonPositive(Keypoint)
    /\ IF ViewsExist(heatmap_idx)
       THEN LET r == GaussianCall(b, heatmap_idx, kp_idx)
            IN  /\ Written(b, heatmap_idx, r)
                /\ IF r.raised
                   THEN Raise /\ UNCHANGED << b, heatmap_idx, kp_idx >>
                   ELSE Advance
       ELSE /\ NothingWritten
            /\ Raise /\ UNCHANGED << b, heatmap_idx, kp_idx >>
    /\ UNCHANGED << self, inputs, outputs, labels, coords, grid, visited,
                    target >>

\* Lines 156-162 of a HeatmapPlateauGenerator, for a valid keypoint.
RasterizePlateau ==
    /\ pc = "loop"
    /\ self.kernel = "Plateau"
    /\ ~AnyNonPositive(Keypoint)
    /\ IF ViewsExist(heatmap_idx)
       THEN LET r == PlateauCall(b, heatmap_idx, kp_idx)
            IN  /\ Written(b, heatmap_idx, r)
                /\ IF r.raised
                   THEN Raise /\ UNCHANGED << b, heatmap_idx, kp_idx >>
                   ELSE Advance
       ELSE /\ NothingWritten
            /\ Raise /\ UNCHANGED << b, heatmap_idx, kp_idx >>
    /\ UNCHANGED << self, inputs, outputs, labels, coords, grid, visited,
                    target >>

\* Lines 164-179: the buffers are transposed and returned.
Assemble ==
    /\ pc = "assemble"
    /\ target' = Bundle(self, heatmap, locref_map, locref_mask)
    /\ pc' = "done"
    /\ UNCHANGED << self, inputs, outputs, labels, coords, grid, heatmap,
                    locref_map, locref_mask, b, heatmap_idx, kp_idx, updates,
                    visited >>

Next == Setup \/ Skip \/ RasterizeGaussian \/ RasterizePlateau \/ Assemble

\* forward as written: the loops of lines 149-151 in their order.
Spec == Init /\ [][Next]_vars

\* ------------------------------------------------- the loops in any order
\* The iterations of lines 149-162 with the (batch, channel) pairs taken in
\* any order and interleaved, the keypoints of one pair in their order.
\* visited[bb][k] counts the keypoints of pair (bb, k) gone through, and
\* b, heatmap_idx, kp_idx are those of the iteration that ran last.

SetupAnyOrder ==
    /\ Prepare
    /\ visited' = [bb \in DOMAIN coords' |->
                      [k \in DOMAIN coords'[bb] |-> 0]]

Pending(bb, k) == visited[bb][k] < Size(coords[bb][k])

\* The iteration for the next keypoint of pair (bb, k) is over.
AdvanceAnyOrder(bb, k) ==
    /\ visited' = [visited EXCEPT ![bb][k] = @ + 1]
    /\ b' = bb
    /\ heatmap_idx' = k
    /\ kp_idx' = visited[bb][k]
    /\ pc' = IF \A b2 \in DOMAIN coords : \A k2 \in DOMAIN coords[b2] :
                   visited'[b2][k2] = Size(coords[b2][k2])
             THEN "assemble" ELSE "loop"

RaiseAnyOrder(bb, k) ==
    /\ Raise
    /\ b' = bb
    /\ heatmap_idx' = k
    /\ kp_idx' = visited[bb][k]
    /\ UNCHANGED visited

SkipAnyOrder ==
    /\ pc = "loop"
    /\ \E bb \in DOMAIN coords : \E k \in DOMAIN coords[bb] :
         /\ Pending(bb, k)
         /\ AnyNonPositive(KeypointAt(bb, k, visited[bb][k]))
         /\ AdvanceAnyOrder(bb, k)
    /\ UNCHANGED << self, inputs, outputs, labels, coords, grid, heatmap,
                    locref_map, locref_mask, updates, target >>

RasterizeGaussianAnyOrder ==
    /\ pc = "loop"
    /\ self.kernel = "Gaussian"
    /\ \E bb \in DOMAIN coords : \E k \in DOMAIN coords[bb] :
         /\ Pending(bb, k)
         /\ ~AnyNonPositive(KeypointAt(bb, k, visited[bb][k]))
         /\ IF ViewsExist(k)
            THEN LET r == GaussianCall(bb, k, visited[bb][k])
                 IN  /\ Written(bb, k, r)
                     /\ IF r.raised THEN RaiseAnyOrder(bb, k)
                                    ELSE AdvanceAnyOrder(bb, k)
            ELSE NothingWritten /\ RaiseAnyOrder(bb, k)
    /\ UNCHANGED << self, inputs, outputs, labels, coords, grid, target >>

RasterizePlateauAnyOrder ==
    /\ pc = "loop"
    /\ self.kernel = "Plateau"
    /\ \E bb \in DOMAIN coords : \E k \in DOMAIN coords[bb] :
         /\ Pending(bb, k)
         /\ ~AnyNonPositive(KeypointAt(bb, k, visited[bb][k]))
         /\ IF ViewsExist(k)
            THEN LET r == PlateauCall(bb, k, visited[bb][k])
                 IN  /\ Written(bb, k, r)
                     /\ IF r.raised THEN RaiseAnyOrder(bb, k)
                                    ELSE AdvanceAnyOrder(bb, k)
            ELSE NothingWritten /\ RaiseAnyOrder(bb, k)
    /\ UNCHANGED << self, inputs, outputs, labels, coords, grid, target >>

NextAnyOrder ==
    \/ SetupAnyOrder
    \/ SkipAnyOrder
    \/ RasterizeGaussianAnyOrder
    \/ RasterizePlateauAnyOrder
    \/ Assemble

SpecAnyOrder == Init /\ [][NextAnyOrder]_vars

\* -------------------------------------------------------------- properties

Batches == 0..(inputs.batch_size - 1)

Rows == 0..(outputs.height - 1)

Cols == 0..(outputs.width - 1)

Channels == 0..(self.num_heatmaps - 1)

\* A label entry (x, y) with a coordinate that is not strictly positive.
NonPositive(entry) == entry[0] <= 0 \/ entry[1] <= 0

\* The entry forward is at, as the label array stores it.
Entry == coords[b][heatmap_idx][kp_idx]

\* The loops of forward have gone past position s of group k of batch
\* element bb.
Passed(bb, k, s) ==
    \/ bb < b
    \/ bb = b /\ k < heatmap_idx
    \/ bb = b /\ k = heatmap_idx /\ s < kp_idx

\* update has been called for position s of group k of batch element bb
\* (the call that raised included).
Called(bb, k, s) ==
    /\ ~NonPositive(coords[bb][k][s])
    /\ \/ Passed(bb, k, s)
       \/ pc = "raised" /\ bb = b /\ k = heatmap_idx /\ s = kp_idx

\* The positions of group k of batch element bb update has been called for.
CalledIn(bb, k) == { s \in DOMAIN coords[bb][k] : Called(bb, k, s) }

SetMax(S) == CHOOSE x \in S : \A y \in S : y <= x

\* Views of one (batch, channel) pair as np.zeros leaves them.
ZeroHeatmapView == [h \in Rows |-> [w \in Cols |-> LogZero]]

ZeroLocrefView ==
    IF self.generate_locref
    THEN [h \in Rows |-> [w \in Cols |-> [c \in 0..1 |-> 0]]]
    ELSE None

ZeroViews ==
    [ heatmap |-> ZeroHeatmapView, locref_map |-> ZeroLocrefView,
      locref_mask |-> ZeroLocrefView, raised |-> FALSE ]

\* update of the generator's class called for the label entry `entry` on
\* the views v.
UpdateOn(v, entry) ==
    IF self.kernel = "Gaussian"
    THEN GaussianUpdate(self, v.heatmap, grid, Reversed(entry),
                        v.locref_map, v.locref_mask)
    ELSE PlateauUpdate(self, v.heatmap, grid, Reversed(entry),
                       v.locref_map, v.locref_mask)

\* update called for the entries of the sequence seq in turn, on views that
\* start out as v, up to the first call that raises.
RECURSIVE RunUpdates(_, _)
RunUpdates(seq, v) ==
    IF seq = << >> \/ v.raised THEN v
    ELSE RunUpdates(Tail(seq), UpdateOn(v, Head(seq)))

\* The entries of a group from position s on, in order, with those that
\* have a non-positive coordinate removed.
RECURSIVE ValidFrom(_, _)
ValidFrom(group, s) ==
    IF s \notin DOMAIN group THEN << >>
    ELSE (IF NonPositive(group[s]) THEN << >> ELSE << group[s] >>)
             \o ValidFrom(group, s + 1)

\* What forward leaves in the views of pair (bb, k) when the batch holds
\* only its valid keypoints.
OnValidOnly(bb, k) == RunUpdates(ValidFrom(coords[bb][k], 0), ZeroViews)

\* The returned targets of pair (bb, k) are those of the views v.
TargetIs(bb, k, v) ==
    /\ \A h \in Rows, w \in Cols :
         target.heatmap.target[bb][k][h][w] = v.heatmap[h][w]
    /\ self.generate_locref =>
         \A h \in Rows, w \in Cols, c \in 0..1 :
            /\ target.locref.target[bb][2 * k + c][h][w]
                  = v.locref_map[h][w][c]
            /\ target.locref.weights[bb][2 * k + c][h][w]
                  = v.locref_mask[h][w][c]

\* The returned targets of pair (bb, k) are all zero.
TargetZero(bb, k) ==
    /\ \A h \in Rows, w \in Cols :
         target.heatmap.target[bb][k][h][w] = LogZero
    /\ self.generate_locref =>
         \A h \in Rows, w \in Cols, c \in 0..1 :
            /\ target.locref.target[bb][2 * k + c][h][w] = 0
            /\ target.locref.weights[bb][2 * k + c][h][w] = 0

C1_SkipStep ==
    (pc = "loop" /\ NonPositive(Entry)) =>
        /\ heatmap' = heatmap
        /\ locref_map' = locref_map
        /\ locref_mask' = locref_mask
        /\ updates' = updates

C1_Outcome ==
    /\ pc = "done" =>
         \A bb \in Batches, k \in Channels :
            /\ ~OnValidOnly(bb, k).raised
            /\ TargetIs(bb, k, OnValidOnly(bb, k))
            /\ (\A s \in DOMAIN coords[bb][k] : NonPositive(coords[bb][k][s]))
                  => TargetZero(bb, k)
    /\ pc = "raised" => OnValidOnly(b, heatmap_idx).raised

\* C1: a keypoint whose row or column coordinate is <= 0 is passed over with
\* no call of update and no write to the heatmap, locref map or locref mask;
\* the targets forward returns are those of the same batch without its
\* invalid keypoints (forward raises exactly when that batch makes it raise),
\* and a (batch, channel) pair whose keypoints are all invalid is all zero.
C1_InvalidSkipped == [](C1_Outcome) /\ [][C1_SkipStep]_vars

\* forward returned for a group that holds an invalid and a valid keypoint
C1_Witness ==
    /\ pc = "done"
    /\ \E bb \in Batches, k \in Channels :
         \E s1, s2 \in DOMAIN coords[bb][k] :
            /\ NonPositive(coords[bb][k][s1])
            /\ ~NonPositive(coords[bb][k][s2])
            /\ updates = 1
            /\ ~TargetZero(bb, k)

\* The heatmap view of a pair after update was called for `entry` alone.
Alone(entry) ==
    IF self.kernel = "Gaussian"
    THEN GaussianUpdate(self, ZeroHeatmapView, grid, Reversed(entry),
                        None, None).heatmap
    ELSE PlateauUpdate(self, ZeroHeatmapView, grid, Reversed(entry),
                       None, None).heatmap

\* The elementwise maximum, at cell (h, w), of the keypoints of pair (bb, k)
\* update has been called for, each rasterized alone.
MaxOfAlone(bb, k, h, w) ==
    SetMax({LogZero} \cup
           { Alone(coords[bb][k][s])[h][w] : s \in CalledIn(bb, k) })

C2_Merged ==
    pc # "start" =>
        \A bb \in Batches, k \in Channels, h \in Rows, w \in Cols :
            /\ heatmap[bb][h][w][k] = MaxOfAlone(bb, k, h, w)
            /\ pc = "done" =>
                 target.heatmap.target[bb][k][h][w] = MaxOfAlone(bb, k, h, w)

C2_NoDecrease ==
    pc # "start" =>
        \A bb \in Batches, k \in Channels, h \in Rows, w \in Cols :
            heatmap'[bb][h][w][k] >= heatmap[bb][h][w][k]

\* C2: with either kernel no heatmap cell ever decreases from one call of
\* update to the next, and each (batch, channel) slice is the elementwise
\* maximum of its valid keypoints rasterized alone into a zero slice, a value
\* that does not depend on the order of the subjects.
C2_MaxMerge == [](C2_Merged) /\ [][C2_NoDecrease]_vars

\* forward returned a Gaussian slice merged from two keypoints, each of which
\* is the larger one at some cell
C2_Witness ==
    /\ pc = "done"
    /\ self.kernel = "Gaussian"
    /\ \E bb \in Batches, k \in Channels :
         \E s1, s2 \in CalledIn(bb, k) :
            /\ \E h \in Rows, w \in Cols :
                 Alone(coords[bb][k][s1])[h][w] > Alone(coords[bb][k][s2])[h][w]
            /\ \E h \in Rows, w \in Cols :
                 Alone(coords[bb][k][s2])[h][w] > Alone(coords[bb][k][s1])[h][w]

\* Squared distance from the grid entry of cell (h, w) to the label entry
\* (x, y) taken as row y, column x.
DistSq(entry, h, w) ==
    (grid[h][w][0] - entry[1]) * (grid[h][w][0] - entry[1])
        + (grid[h][w][1] - entry[0]) * (grid[h][w][1] - entry[0])

InDisc(entry, h, w) == DistSq(entry, h, w) <= self.dist_thresh * self.dist_thresh

\* C3: with the Gaussian kernel and generate_locref enabled, each call of
\* update on a valid keypoint completes without raising and leaves both mask
\* components of its channel 1 at every cell within dist_thresh of the
\* keypoint, and the mask unchanged elsewhere.
C3_GaussianMaskAssigned ==
    (self.kernel = "Gaussian" /\ self.generate_locref /\ pc # "start") =>
        /\ pc # "raised"
        /\ \A bb \in Batches, k \in Channels, h \in Rows, w \in Cols,
              c \in 0..1 :
              locref_mask[bb][h][w][2 * k + c] =
                 IF \E s \in CalledIn(bb, k) : InDisc(coords[bb][k][s], h, w)
                 THEN 1 ELSE 0

\* C4: with the Plateau kernel every cell of the returned heatmap is 0 or 1,
\* and it is 1 exactly when the grid entry of the cell is within dist_thresh
\* (the distance dist_thresh included) of a valid keypoint of its (batch,
\* channel) pair.
C4_PlateauDisc ==
    (self.kernel = "Plateau" /\ pc = "done") =>
        \A bb \in Batches, k \in Channels, h \in Rows, w \in Cols :
            /\ target.heatmap.target[bb][k][h][w] \in {LogZero, LogOne}
            /\ target.heatmap.target[bb][k][h][w] = LogOne
                 <=> \E s \in DOMAIN coords[bb][k] :
                        /\ ~NonPositive(coords[bb][k][s])
                        /\ InDisc(coords[bb][k][s], h, w)

\* forward returned a plateau with a cell at distance exactly dist_thresh
\* set to 1 and another cell of the channel left at 0
C4_Witness ==
    /\ self.kernel = "Plateau"
    /\ pc = "done"
    /\ \E bb \in Batches, k \in Channels :
         /\ \E s \in DOMAIN coords[bb][k], h \in Rows, w \in Cols :
              /\ ~NonPositive(coords[bb][k][s])
              /\ DistSq(coords[bb][k][s], h, w)
                    = self.dist_thresh * self.dist_thresh
              /\ target.heatmap.target[bb][k][h][w] = LogOne
         /\ \E h \in Rows, w \in Cols :
              target.heatmap.target[bb][k][h][w] = LogZero

\* The label array by (batch, subject, keypoint-type): an array of three
\* dimensions holds one subject.
Subjects == IF labels.ndim = 3 THEN 0..0 ELSE DOMAIN labels.array[0]

Types ==
    IF labels.ndim = 3 THEN DOMAIN labels.array[0]
    ELSE DOMAIN labels.array[0][0]

Label(bb, s, t) ==
    IF labels.ndim = 3 THEN labels.array[bb][t] ELSE labels.array[bb][s][t]

\* The heatmap channel of subject s, keypoint-type t.
ChannelOf(s, t) == IF self.heatmap_mode = "KEYPOINT" THEN t ELSE s

\* C5: in KEYPOINT mode the valid keypoints of type t, of every subject, are
\* rasterized into channel t, and in INDIVIDUAL mode the valid keypoints of
\* subject s, of every type, into channel s; a label array of three
\* dimensions holds one subject (so INDIVIDUAL mode puts all of it into
\* channel 0).
C5_ChannelByMode ==
    pc = "done" =>
        \A bb \in Batches, k \in Channels, h \in Rows, w \in Cols :
            target.heatmap.target[bb][k][h][w] =
                SetMax({LogZero} \cup
                       { Alone(Label(bb, st[1], st[2]))[h][w] :
                           st \in { x \in Subjects \X Types :
                                       /\ ~NonPositive(Label(bb, x[1], x[2]))
                                       /\ ChannelOf(x[1], x[2]) = k } })

\* forward returned in KEYPOINT mode for two subjects with different valid
\* keypoints of one type
C5_Witness ==
    /\ pc = "done"
    /\ self.heatmap_mode = "KEYPOINT"
    /\ labels.ndim = 4
    /\ \E bb \in Batches, t \in Types :
         /\ 1 \in Subjects
         /\ ~NonPositive(Label(bb, 0, t))
         /\ ~NonPositive(Label(bb, 1, t))
         /\ Label(bb, 0, t) # Label(bb, 1, t)
         /\ \E h \in Rows, w \in Cols :
              target.heatmap.target[bb][t][h][w] # LogZero

\* C6: the grid holds, for every feature cell (i, j), exactly the centre
\* (i * stride_y + stride_y / 2, j * stride_x + stride_x / 2) with
\* stride_y = input_h / height and stride_x = input_w / width.
C6_GridExactCentres ==
    pc # "start" =>
        \A i \in Rows, j \in Cols :
            /\ 2 * outputs.height * grid[i][j][0]
                  = (2 * i + 1) * inputs.input_h
            /\ 2 * outputs.width * grid[i][j][1]
                  = (2 * j + 1) * inputs.input_w

\* C7: the returned heatmap target at (b, c, h, w) is the heatmap buffer at
\* (b, h, w, c) for exactly num_heatmaps channels; with generate_locref the
\* dictionary also has a locref entry whose target and weights at
\* (b, c, h, w) are the locref map and mask at (b, h, w, c) for exactly
\* 2 * num_heatmaps channels, channels 2k and 2k + 1 carrying the weights of
\* heatmap channel k; without generate_locref there is no locref entry.
C7_Relayout ==
    pc = "done" =>
        /\ DOMAIN target = IF self.generate_locref
                           THEN {"heatmap", "locref"} ELSE {"heatmap"}
        /\ DOMAIN target.heatmap.target = Batches
        /\ \A bb \in Batches :
             /\ DOMAIN target.heatmap.target[bb] = Channels
             /\ \A c \in Channels :
                  /\ DOMAIN target.heatmap.target[bb][c] = Rows
                  /\ \A h \in Rows :
                       /\ DOMAIN target.heatmap.target[bb][c][h] = Cols
                       /\ \A w \in Cols :
                            target.heatmap.target[bb][c][h][w]
                               = heatmap[bb][h][w][c]
        /\ self.generate_locref =>
             \A e \in {"target", "weights"} :
                LET out == target.locref[e]
                    buf == IF e = "target" THEN locref_map ELSE locref_mask
                IN  /\ DOMAIN out = Batches
                    /\ \A bb \in Batches :
                         /\ DOMAIN out[bb] = 0..(2 * self.num_heatmaps - 1)
                         /\ \A c \in DOMAIN out[bb] :
                              /\ DOMAIN out[bb][c] = Rows
                              /\ \A h \in Rows :
                                   /\ DOMAIN out[bb][c][h] = Cols
                                   /\ \A w \in Cols :
                                        out[bb][c][h][w] = buf[bb][h][w][c]
        /\ self.generate_locref =>
             \A bb \in Batches, k \in Channels, c \in 0..1, h \in Rows,
                w \in Cols :
                target.locref.weights[bb][2 * k + c][h][w] = 1
                    <=> target.heatmap.target[bb][k][h][w] = LogOne

\* forward returned a locref target that differs from its own transpose in
\* the two spatial axes
C7_Witness ==
    /\ pc = "done"
    /\ self.generate_locref
    /\ \E bb \in Batches, c \in 0..(2 * self.num_heatmaps - 1),
          h \in Rows, w \in Cols :
         /\ w \in Rows /\ h \in Cols
         /\ target.locref.target[bb][c][h][w]
               # target.locref.target[bb][c][w][h]
         /\ target.locref.weights[bb][c][h][w]
               # target.locref.weights[bb][c][w][h]

\* The kernel of the generator writes the locref map at cell (h, w) when
\* update is called for `entry`: the Plateau rule within dist_thresh of the
\* keypoint, the Gaussian rule everywhere.
Covers(entry, h, w) == self.kernel = "Gaussian" \/ InDisc(entry, h, w)

\* The positions of pair (bb, k) update has been called for that cover (h, w).
Covering(bb, k, h, w) ==
    { s \in CalledIn(bb, k) : Covers(coords[bb][k][s], h, w) }

\* Component c of the offset from the grid entry of cell (h, w) to the label
\* entry (x, y), times locref_scale: component 0 along x, component 1 along y.
ScaledOffset(entry, h, w, c) ==
    IF c = 0 THEN (entry[0] - grid[h][w][1]) * self.locref_scale
             ELSE (entry[1] - grid[h][w][0]) * self.locref_scale

C8_LastWriter ==
    (self.generate_locref /\ pc # "start") =>
        \A bb \in Batches, k \in Channels, h \in Rows, w \in Cols, c \in 0..1 :
            LET S == Covering(bb, k, h, w)
                v == IF S = {} THEN 0
                     ELSE ScaledOffset(coords[bb][k][SetMax(S)], h, w, c)
            IN  /\ locref_map[bb][h][w][2 * k + c] = v
                /\ pc = "done" => target.locref.target[bb][2 * k + c][h][w] = v

C8_Footprint ==
    (self.generate_locref /\ pc = "loop" /\ ~NonPositive(Entry)) =>
        \A h \in Rows, w \in Cols, c \in 0..1 :
            IF Covers(Entry, h, w)
            THEN locref_map'[b][h][w][2 * heatmap_idx + c]
                    = ScaledOffset(Entry, h, w, c)
            ELSE /\ locref_map'[b][h][w][2 * heatmap_idx + c]
                      = locref_map[b][h][w][2 * heatmap_idx + c]
                 /\ locref_mask'[b][h][w][2 * heatmap_idx + c]
                      = locref_mask[b][h][w][2 * heatmap_idx + c]

C9_Frame ==
    pc = "loop" =>
        \A bb \in Batches, h \in Rows, w \in Cols :
            /\ \A k \in Channels :
                 (bb # b' \/ k # heatmap_idx') =>
                     heatmap'[bb][h][w][k] = heatmap[bb][h][w][k]
            /\ self.generate_locref =>
                 \A c \in 0..(2 * self.num_heatmaps - 1) :
                    (bb # b' \/ c \notin {2 * heatmap_idx', 2 * heatmap_idx' + 1})
                        => /\ locref_map'[bb][h][w][c] = locref_map[bb][h][w][c]
                           /\ locref_mask'[bb][h][w][c]
                                 = locref_mask[bb][h][w][c]

\* The buffers of pair (bb, k) are the views v.
BuffersAre(bb, k, v) ==
    /\ \A h \in Rows, w \in Cols : heatmap[bb][h][w][k] = v.heatmap[h][w]
    /\ self.generate_locref =>
         \A h \in Rows, w \in Cols, c \in 0..1 :
            /\ locref_map[bb][h][w][2 * k + c] = v.locref_map[h][w][c]
            /\ locref_mask[bb][h][w][2 * k + c] = v.locref_mask[h][w][c]

C9_Result ==
    pc \in {"assemble", "done"} =>
        \A bb \in Batches, k \in Channels :
            /\ BuffersAre(bb, k, OnValidOnly(bb, k))
            /\ (\A s \in DOMAIN coords[bb][k] : NonPositive(coords[bb][k][s]))
                  => BuffersAre(bb, k, ZeroViews)
            /\ pc = "done" => TargetIs(bb, k, OnValidOnly(bb, k))

C10_Peak ==
    pc # "start" =>
        \A bb \in Batches, k \in Channels :
            \A s \in CalledIn(bb, k), h \in Rows, w \in Cols :
               (grid[h][w][0] = coords[bb][k][s][1]
                   /\ grid[h][w][1] = coords[bb][k][s][0])
               => /\ heatmap[bb][h][w][k] = LogOne
                  /\ pc = "done" => target.heatmap.target[bb][k][h][w] = LogOne

C10_Call ==
    (pc = "loop" /\ ~NonPositive(Entry)) =>
        /\ \A h \in Rows, w \in Cols :
             /\ (grid[h][w][0] = Entry[1] /\ grid[h][w][1] = Entry[0])
                   => heatmap'[b][h][w][heatmap_idx] = LogOne
             /\ (self.generate_locref /\ Covers(Entry, h, w)) =>
                   /\ locref_map'[b][h][w][2 * heatmap_idx]
                         = (Entry[0] - grid[h][w][1]) * self.locref_scale
                   /\ locref_map'[b][h][w][2 * heatmap_idx + 1]
                         = (Entry[1] - grid[h][w][0]) * self.locref_scale
        /\ coords' = coords
        /\ labels' = labels

\* C10: a label entry stored as (x, y) is rasterized as row y, column x: the
\* heatmap value 1 lands on the cell whose grid entry is (row y, column x),
\* component 0 of the channel's locref holds (x - column of the cell) *
\* locref_scale and component 1 holds (y - row of the cell) * locref_scale;
\* the label array is left as it was.
C10_AxisConvention == [](C10_Peak) /\ [][C10_Call]_vars

\* forward returned for a label entry (x, y), x # y, that lies on the grid
\* entry (row y, column x) of a cell, which holds 1, while no cell holding 1
\* has the grid entry (row x, column y)
C10_Witness ==
    /\ pc = "done"
    /\ self.generate_locref
    /\ \E bb \in Batches, k \in Channels :
         \E s \in CalledIn(bb, k), h \in Rows, w \in Cols :
            /\ coords[bb][k][s][0] # coords[bb][k][s][1]
            /\ grid[h][w][0] = coords[bb][k][s][1]
            /\ grid[h][w][1] = coords[bb][k][s][0]
            /\ target.heatmap.target[bb][k][h][w] = LogOne
            /\ target.locref.target[bb][2 * k][h][w] = 0
            /\ \A h2 \in Rows, w2 \in Cols :
                  target.heatmap.target[bb][k][h2][w2] = LogOne =>
                      grid[h2][w2] # coords[bb][k][s]

====
